---- MODULE Spec2Model ----
(***************************************************************************)
(* Model of kvdb/dbserver.py: an in-memory key-value store with per-key    *)
(* TTL (Store), the expiry index (ExpiryService) and the command handlers  *)
(* of Server.  One module-level Server exists (dbserver.py:260); the       *)
(* `server` that ExpiryService.cleanup calls is that same object.          *)
(***************************************************************************)
EXTENDS Integers, Sequences, FiniteSets, TLC

\* ------------------------------------------------------------------ bounds
MaxTime == 2      \* the clock int(time.time()) runs over 0..MaxTime
MaxIndex == 2     \* the expiry index holds at most this many entries in all
MaxVal == 1       \* counters stay within -1..MaxVal

Keys == {"a", "b"}

\* ------------------------------------------------------------------ values
\* A Python value is modelled by its type and payload.  NoneV is None.
NoneV == [type |-> "none", n |-> 0, s |-> ""]
IntV(n) == [type |-> "int", n |-> n, s |-> ""]
StrV(s) == [type |-> "str", n |-> 0, s |-> s]

\* Python truthiness of a value (`if store.value:`): None, 0 and "" are falsy.
truthy(v) == CASE v.type = "none" -> FALSE
               [] v.type = "int" -> v.n # 0
               [] OTHER -> v.s # ""

\* The values the requests set; 0, -1 and the other counters come from
\* increment and decrement, None from expire.
SetValues == {IntV(1), StrV(""), StrV("v")}
IncrementBy == {1, 2}
Ttls == {0, 1}

\* ------------------------------------------------------------------ Store
\* Store.__init__: seed = seed or int(time.time()); a seed of None or 0 is
\* falsy and replaced by the clock t.
Store(key, value, ttl, seed, t) ==
    [key |-> key, value |-> value, ttl |-> ttl,
     seed |-> IF seed = 0 THEN t ELSE seed]

\* Store.serialize: the dictionary stored under the key.
serialize(store) == [value |-> store.value, ttl |-> store.ttl, seed |-> store.seed]

\* Store.deserialize(key, data) with data = self.data.get(key): a missing key
\* yields a Store with value None, ttl 0 and the current clock as seed.  A
\* stored dictionary always has three entries, so it is truthy.
deserialize(key, data, t) ==
    IF key \in DOMAIN data
    THEN Store(key, data[key].value, data[key].ttl, data[key].seed, t)
    ELSE Store(key, NoneV, 0, 0, t)

Max(x, y) == IF x >= y THEN x ELSE y

\* Store.ttl written without its max(..., 0).
ttl_of_nomax(store, t) == store.ttl - (t - store.seed)

\* Store.ttl[0]
ttl_of(store, t) == Max(store.ttl - (t - store.seed), 0)

\* Store.persistent
persistent(store) == store.ttl = 0

\* Store.expired
expired(store, t) == ttl_of(store, t) <= 0 /\ ~persistent(store)

\* Store.expiration
expiration(store) == store.ttl + store.seed

\* ---------------------------------------------------------- ExpiryService
\* self.keys is a defaultdict(list): a missing bucket reads as the empty
\* list.  The index is kept as a function whose domain is the set of
\* instants with a non-empty bucket; an empty list that the defaultdict
\* holds is indistinguishable from a missing one for every read the
\* program makes.
Bucket(ks, i) == IF i \in DOMAIN ks THEN ks[i] ELSE <<>>

PutBucket(ks, i, seq) ==
    IF seq = <<>>
    THEN [j \in DOMAIN ks \ {i} |-> ks[j]]
    ELSE [j \in DOMAIN ks \cup {i} |-> IF j = i THEN seq ELSE ks[j]]

InSeq(seq, x) == \E j \in 1..Len(seq) : seq[j] = x

\* list.remove(x): drops the first occurrence of x.
RECURSIVE RemoveFirst(_, _)
RemoveFirst(seq, x) ==
    IF seq = <<>> THEN <<>>
    ELSE IF Head(seq) = x THEN Tail(seq)
    ELSE <<Head(seq)>> \o RemoveFirst(Tail(seq), x)

\* The engine state threaded through the handlers: the dict Server.data,
\* the index ExpiryService.keys, and the exception raised, if any.
St(data, ks, err) == [data |-> data, keys |-> ks, err |-> err]

\* subscribe written as `self.keys[store.expiration] = [store.key]`: the
\* bucket is replaced instead of appended to.
subscribe_overwrite(ks, store) == PutBucket(ks, expiration(store), <<store.key>>)

\* ExpiryService.subscribe
subscribe(ks, store) ==
    PutBucket(ks, expiration(store), Append(Bucket(ks, expiration(store)), store.key))

\* unsubscribe written with `keys.pop(0)` in place of `keys.remove(store.key)`:
\* the head of the bucket goes, whichever key it is.
unsubscribe_pop(st, store) ==
    IF InSeq(Bucket(st.keys, expiration(store)), store.key)
    THEN [st EXCEPT !.keys = PutBucket(st.keys, expiration(store),
                               Tail(Bucket(st.keys, expiration(store))))]
    ELSE [st EXCEPT !.err = "ValueError"]

\* ExpiryService.unsubscribe: list.remove raises ValueError when the key is
\* not in the bucket.
unsubscribe(st, store) ==
    IF InSeq(Bucket(st.keys, expiration(store)), store.key)
    THEN [st EXCEPT !.keys = PutBucket(st.keys, expiration(store),
                               RemoveFirst(Bucket(st.keys, expiration(store)), store.key))]
    ELSE [st EXCEPT !.err = "ValueError"]

\* ----------------------------------------------------------------- Server
\* Server._save_store
save_store(st, store) ==
    LET d == [k \in DOMAIN st.data \cup {store.key} |->
                 IF k = store.key THEN serialize(store) ELSE st.data[k]]
    IN  IF ~persistent(store)
        THEN [st EXCEPT !.data = d, !.keys = subscribe(st.keys, store)]
        ELSE [st EXCEPT !.data = d]

\* delete without its `if key in self.data` guard: `del self.data[key]`
\* raises KeyError for a key that has no Record.
delete_noguard(st, key, t) ==
    LET store == deserialize(key, st.data, t)
        s1 == IF ~persistent(store) THEN unsubscribe(st, store) ELSE st
    IN  IF s1.err # "" THEN s1
        ELSE IF key \notin DOMAIN s1.data THEN [s1 EXCEPT !.err = "KeyError"]
        ELSE [s1 EXCEPT !.data = [k \in DOMAIN s1.data \ {key} |-> s1.data[k]]]

\* Server.delete
delete(st, key, t) ==
    LET store == deserialize(key, st.data, t)
        s1 == IF ~persistent(store) THEN unsubscribe(st, store) ELSE st
    IN  IF s1.err # "" THEN s1
        ELSE [s1 EXCEPT !.data = [k \in DOMAIN s1.data \ {key} |-> s1.data[k]]]

\* A handler's outcome: the state it leaves and the value it returns.
Out(st, ret) == [st |-> st, ret |-> ret]

\* get written with `if store.value:` in place of `if store:`: a falsy
\* value reads as absent.
get_truthy(st, key, t) ==
    LET store == deserialize(key, st.data, t)
    IN  IF expired(store, t) THEN Out(delete(st, key, t), NoneV)
        ELSE Out(st, IF truthy(store.value) THEN store.value ELSE NoneV)

\* Server.get: a Store object is always truthy, so `if store:` is taken.
get(st, key, t) ==
    LET store == deserialize(key, st.data, t)
    IN  IF expired(store, t) THEN Out(delete(st, key, t), NoneV)
        ELSE Out(st, store.value)

\* Server.set
set(st, key, value, ttl, t) == Out(save_store(st, Store(key, value, ttl, 0, t)), NoneV)

\* increment written with `store.value = increment_by` in place of `+=`.
increment_assign(st, key, by, t) ==
    LET store == deserialize(key, st.data, t)
    IN  IF truthy(store.value)
        THEN IF store.value.type = "int"
             THEN LET s2 == [store EXCEPT !.value = IntV(by)]
                  IN  Out(save_store(st, s2), s2.value)
             ELSE Out([st EXCEPT !.err = "NotIncrementableError"], NoneV)
        ELSE LET s2 == Store(key, IntV(by), 0, 0, t)
             IN  Out(save_store(st, s2), s2.value)

\* Server.increment: `store.value += increment_by` raises TypeError for a
\* str and the handler raises NotIncrementableError; nothing is saved.
increment(st, key, by, t) ==
    LET store == deserialize(key, st.data, t)
    IN  IF truthy(store.value)
        THEN IF store.value.type = "int"
             THEN LET s2 == [store EXCEPT !.value = IntV(store.value.n + by)]
                  IN  Out(save_store(st, s2), s2.value)
             ELSE Out([st EXCEPT !.err = "NotIncrementableError"], NoneV)
        ELSE LET s2 == Store(key, IntV(by), 0, 0, t)
             IN  Out(save_store(st, s2), s2.value)

\* Server.decrement
decrement(st, key, t) == increment(st, key, 0 - 1, t)

\* Server.expire: inside class Server the name store.__ttl is mangled to
\* store._Server__ttl, an attribute that Store.serialize, Store.ttl and
\* Store.expiration never read (they read _Store__ttl).
expire(st, key, ttl, t) ==
    LET store == deserialize(key, st.data, t)
        s2 == [key |-> store.key, value |-> store.value, ttl |-> store.ttl,
               seed |-> store.seed, Server__ttl |-> ttl]
    IN  Out(save_store(st, s2), NoneV)

\* Server.ttl
ttl(st, key, t) == Out(st, IntV(ttl_of(deserialize(key, st.data, t), t)))

\* ExpiryService.cleanup: `for key in self.keys[timestamp]` walks the live
\* list by position while server.delete removes entries from it.
RECURSIVE cleanup_loop(_, _, _)
cleanup_loop(st, i, t) ==
    IF st.err # "" \/ i >= Len(Bucket(st.keys, t)) THEN st
    ELSE cleanup_loop(delete(st, Bucket(st.keys, t)[i + 1], t), i + 1, t)

cleanup(st, t) == cleanup_loop(st, 0, t)

\* ------------------------------------------------------------- dispatcher
\* The MAP of Server.process_input.
Commands == {"GET", "SET", "PING", "DELETE", "INCR", "DECR", "TTL", "EXPIRE"}

\* A request {"command": ..., "args": {...}}.  An argument the handler has a
\* default for (ttl=0, increment_by=1) carries that default when the request
\* leaves it out.
Message(command, key, value, t, by) ==
    [command |-> command,
     args |-> [key |-> key, value |-> value, ttl |-> t, increment_by |-> by]]

\* Server.process_input: the exception it raises, "" when it returns the
\* callable.
process_input(input) ==
    IF input.command \in Commands THEN "" ELSE "CommandNotFoundError"

\* The callable functools.partial(command_func, **args), called.
command(st, input, t) ==
    CASE input.command = "GET" -> get(st, input.args.key, t)
      [] input.command = "SET" ->
            set(st, input.args.key, input.args.value, input.args.ttl, t)
      [] input.command = "PING" -> Out(st, StrV("PONG"))
      [] input.command = "DELETE" -> Out(delete(st, input.args.key, t), NoneV)
      [] input.command = "INCR" ->
            increment(st, input.args.key, input.args.increment_by, t)
      [] input.command = "DECR" -> decrement(st, input.args.key, t)
      [] input.command = "TTL" -> ttl(st, input.args.key, t)
      [] OTHER -> expire(st, input.args.key, input.args.ttl, t)

\* Server.serialize_output and Server.serialize_error; the text of a message
\* is modelled by the name of the class attribute that holds it.
serialize_output(output) == [status |-> "OK", result |-> output]
serialize_error(message) == [status |-> "ERROR", result |-> StrV(message)]
NoResponse == [status |-> "", result |-> NoneV]

\* Server.handle_message: process_input runs outside the try, and the try
\* catches ServerError only.  The outcome is the state left (err names an
\* exception that leaves handle_message) and the response returned.
handle_message(st, input, t) ==
    IF process_input(input) # ""
    THEN [st |-> [st EXCEPT !.err = process_input(input)], response |-> NoResponse]
    ELSE LET out == command(st, input, t)
         IN  IF out.st.err = "NotIncrementableError"
             THEN [st |-> [out.st EXCEPT !.err = ""],
                   response |-> serialize_error("NotIncrementableError.message")]
             ELSE IF out.st.err # ""
             THEN [st |-> out.st, response |-> NoResponse]
             ELSE [st |-> out.st, response |-> serialize_output(out.ret)]

\* ------------------------------------------------------------------ state
VARIABLES
    data,      \* Server.data: key -> serialized Store
    keys,      \* ExpiryService.keys: expiration instant -> list of keys
    now,       \* int(time.time())
    finished,  \* Timer.finished of the expiry service
    raised,    \* the exception that left handle_message, "" if none did
    written    \* per key, the last call that wrote it (history, read by no handler)

vars == <<data, keys, now, finished, raised, written>>

EmptyMap == [k \in {} |-> NoneV]

\* The history of a key: kind is "fresh" (no write yet), "set" (the last
\* write was set(key, value, ttl) at instant at), "delete" (the last write
\* was a delete), "counter" (only increments and decrements since fresh;
\* value is their sum) or "other".
Written(kind, value, t, at) == [kind |-> kind, value |-> value, ttl |-> t, at |-> at]

\* Server.__init__ up to the construction of ExpiryService(1), before
\* self.expiry_service.run().
Init ==
    /\ data = EmptyMap
    /\ keys = EmptyMap
    /\ now = 0
    /\ finished = FALSE
    /\ raised = ""
    /\ written = [k \in Keys |-> Written("fresh", NoneV, 0, 0)]

Cur == St(data, keys, "")

RECURSIVE Entries(_)
Entries(ks) ==
    IF DOMAIN ks = {} THEN 0
    ELSE LET i == CHOOSE j \in DOMAIN ks : TRUE
         IN  Len(ks[i]) + Entries([j \in DOMAIN ks \ {i} |-> ks[j]])

InBounds(st) ==
    /\ Entries(st.keys) <= MaxIndex
    /\ \A k \in DOMAIN st.data :
          st.data[k].value.type = "int" => st.data[k].value.n \in (0 - 1)..MaxVal

\* Server.run serves one request after the other in its accept loop, once
\* the constructor has returned; an exception that leaves handle_message
\* leaves the loop.
Serving == finished /\ raised = ""

\* The effect of one request on the variables.
Apply(key, out, w) ==
    /\ Serving
    /\ InBounds(out.st)
    /\ data' = out.st.data
    /\ keys' = out.st.keys
    /\ raised' = out.st.err
    /\ written' = [written EXCEPT ![key] = w]
    /\ UNCHANGED <<now, finished>>

\* The clock advances.
Tick ==
    /\ Serving
    /\ now < MaxTime
    /\ now' = now + 1
    /\ UNCHANGED <<data, keys, finished, raised, written>>

\* Server.__init__: self.expiry_service.run() is Timer.run called in the
\* constructing thread: it waits the interval, calls cleanup once and sets
\* Timer.finished.
TimerRun ==
    /\ ~finished
    /\ now' = now + 1
    /\ finished' = TRUE
    /\ data' = cleanup(Cur, now').data
    /\ keys' = cleanup(Cur, now').keys
    /\ raised' = cleanup(Cur, now').err
    /\ UNCHANGED written

\* A call of ExpiryService.cleanup (a reaper tick) at the current instant.
Cleanup ==
    /\ Serving
    /\ data' = cleanup(Cur, now).data
    /\ keys' = cleanup(Cur, now).keys
    /\ raised' = cleanup(Cur, now).err
    /\ UNCHANGED <<now, finished, written>>

\* The handlers, each reached as in Server.handle_client: a request handed
\* to handle_message.
Get(key) ==
    Apply(key, handle_message(Cur, Message("GET", key, NoneV, 0, 1), now), written[key])

Set(key, value, t) ==
    Apply(key, handle_message(Cur, Message("SET", key, value, t, 1), now),
          Written("set", value, t, now))

Delete(key) ==
    Apply(key, handle_message(Cur, Message("DELETE", key, NoneV, 0, 1), now),
          Written("delete", NoneV, 0, 0))

Counted(key, by) ==
    CASE written[key].kind = "fresh" -> Written("counter", IntV(by), 0, 0)
      [] written[key].kind = "counter" ->
            Written("counter", IntV(written[key].value.n + by), 0, 0)
      [] OTHER -> Written("other", NoneV, 0, 0)

Increment(key, by) ==
    Apply(key, handle_message(Cur, Message("INCR", key, NoneV, 0, by), now), Counted(key, by))

Decrement(key) ==
    Apply(key, handle_message(Cur, Message("DECR", key, NoneV, 0, 1), now),
          Counted(key, 0 - 1))

Expire(key, t) ==
    Apply(key, handle_message(Cur, Message("EXPIRE", key, NoneV, t, 1), now),
          Written("other", NoneV, 0, 0))

Ttl(key) ==
    Apply(key, handle_message(Cur, Message("TTL", key, NoneV, 0, 1), now), written[key])

\* A PING request.
Ping ==
    /\ Serving
    /\ raised' = handle_message(Cur, Message("PING", "", NoneV, 0, 1), now).st.err
    /\ UNCHANGED <<data, keys, now, finished, written>>

\* A request whose command is not in the MAP.
Unknown ==
    /\ Serving
    /\ raised' = handle_message(Cur, Message("FOO", "", NoneV, 0, 1), now).st.err
    /\ UNCHANGED <<data, keys, now, finished, written>>

Next ==
    \/ Tick
    \/ TimerRun
    \/ Cleanup
    \/ \E k \in Keys : Get(k)
    \/ \E k \in Keys, v \in SetValues, t \in Ttls : Set(k, v, t)
    \/ \E k \in Keys : Delete(k)
    \/ \E k \in Keys, by \in IncrementBy : Increment(k, by)
    \/ \E k \in Keys : Decrement(k)
    \/ \E k \in Keys, t \in Ttls : Expire(k, t)
    \/ \E k \in Keys : Ttl(k)
    \/ Ping
    \/ Unknown

Spec == Init /\ [][Next]_vars

\* The same server with the history of writes left unrecorded: a request
\* handed to handle_message, its effect applied to Server.data and the
\* index only.
Request(key, input) == Apply(key, handle_message(Cur, input, now), written[key])

EngineNext ==
    \/ Tick
    \/ TimerRun
    \/ Cleanup
    \/ \E k \in Keys : Request(k, Message("GET", k, NoneV, 0, 1))
    \/ \E k \in Keys, v \in SetValues, t \in Ttls : Request(k, Message("SET", k, v, t, 1))
    \/ \E k \in Keys : Request(k, Message("DELETE", k, NoneV, 0, 1))
    \/ \E k \in Keys, by \in IncrementBy : Request(k, Message("INCR", k, NoneV, 0, by))
    \/ \E k \in Keys : Request(k, Message("DECR", k, NoneV, 0, 1))
    \/ \E k \in Keys, t \in Ttls : Request(k, Message("EXPIRE", k, NoneV, t, 1))
    \/ \E k \in Keys : Request(k, Message("TTL", k, NoneV, 0, 1))
    \/ Ping
    \/ Unknown

Engine == Init /\ [][EngineNext]_vars

\* ----------------------------------------------------------------- claims
\* A call "from every reachable state" is the handler applied to the current
\* state: the invariants below evaluate it in each state TLC reaches.

Subscribed(ks, key) == {i \in DOMAIN ks : InSeq(ks[i], key)}

\* C1: Expiry correctness.  When the last write of k was set(k, v, ttl=T) with
\* T > 0 at instant t0, get(k) returns v while now < t0 + T and None from
\* t0 + T on, whatever came before and whatever reaper ticks and calls on
\* other keys came after.
C1_ExpiryCorrectness ==
    \A k \in Keys :
        (Serving /\ written[k].kind = "set" /\ written[k].ttl > 0) =>
            get(Cur, k, now).ret =
                IF now < written[k].at + written[k].ttl THEN written[k].value ELSE NoneV

\* C2: Persistence invariant.  When the last write of k was set(k, v, ttl=0),
\* get(k) returns v at every later time and k is in no bucket of the index.
C2_Persistence ==
    \A k \in Keys :
        (Serving /\ written[k].kind = "set" /\ written[k].ttl = 0) =>
            /\ get(Cur, k, now).ret = written[k].value
            /\ Subscribed(keys, k) = {}

\* C3: No dangling index entries.  Every key in bucket i has a Record that is
\* not persistent and whose expiration instant seed + ttl is i.
C3_NoDangling ==
    \A i \in DOMAIN keys : \A j \in 1..Len(keys[i]) :
        /\ keys[i][j] \in DOMAIN data
        /\ data[keys[i][j]].ttl > 0
        /\ data[keys[i][j]].seed + data[keys[i][j]].ttl = i

\* C4: Index completeness.  Every Record with ttl > 0 has its key in the
\* bucket of its own expiration instant seed + ttl.
C4_IndexComplete ==
    \A k \in DOMAIN data :
        data[k].ttl > 0 => InSeq(Bucket(keys, data[k].seed + data[k].ttl), k)

\* C4 witness: a Record with ttl > 0 written before the current instant is
\* subscribed twice under its expiration instant (a set followed by an
\* increment or an expire of the key).
C4_Witness ==
    \E k \in DOMAIN data :
        /\ data[k].ttl > 0
        /\ data[k].seed < now
        /\ Bucket(keys, data[k].seed + data[k].ttl) = <<k, k>>

\* C5: Round-trip.  From every reachable state set(k, v) with the default
\* ttl=0, called directly or as a SET request, answers None and a get(k)
\* right after it returns v.
C5_RoundTrip ==
    Serving =>
        \A k \in Keys, v \in SetValues \cup {NoneV, IntV(0)} :
            LET direct == set(Cur, k, v, 0, now)
                request == handle_message(Cur, Message("SET", k, v, 0, 1), now)
            IN  /\ direct.st.err = ""
                /\ get(direct.st, k, now).ret = v
                /\ request.response = serialize_output(NoneV)
                /\ request.st = direct.st
                /\ handle_message(request.st, Message("GET", k, NoneV, 0, 1), now).response
                       = serialize_output(v)

\* C5 witness: a falsy value was set with ttl=0 over a Record that had a ttl
\* (its index entry is still there), and get returns that value.
C5_Witness ==
    \E k \in Keys :
        /\ written[k].kind = "set" /\ written[k].ttl = 0
        /\ ~truthy(written[k].value)
        /\ Subscribed(keys, k) # {}
        /\ raised = ""
        /\ get(Cur, k, now).ret = written[k].value

\* C6: delete is total and idempotent.  From every reachable state delete(k)
\* raises nothing, leaves k out of the Store with get(k) returning None, and
\* a second delete(k) changes nothing more.
C6_DeleteIdempotent ==
    Serving =>
        \A k \in Keys :
            LET once == delete(Cur, k, now)
                twice == delete(once, k, now)
            IN  /\ once.err = ""
                /\ k \notin DOMAIN once.data
                /\ get(once, k, now) = Out(once, NoneV)
                /\ twice = once

\* C6 witness: "a" was deleted and has no Record (a further delete is the
\* second one), while "b" has a Record with a ttl that delete unsubscribes.
C6_Witness ==
    /\ raised = ""
    /\ written["a"].kind = "delete" /\ "a" \notin DOMAIN data
    /\ delete(Cur, "a", now) = Cur
    /\ "b" \in DOMAIN data /\ data["b"].ttl > 0
    /\ Subscribed(delete(Cur, "b", now).keys, "b") = {}

\* C7: Increment totality.  increment(k, by=n) of a key with no Record
\* returns n and creates a persistent Record; and on a key that has only
\* been incremented and decremented since it was fresh the Record holds the
\* running sum and every further call returns the sum so far, also through 0.
C7_IncrementTotality ==
    Serving =>
        \A k \in Keys, by \in IncrementBy \cup {0 - 1} :
            LET r == IF by = 0 - 1 THEN decrement(Cur, k, now) ELSE increment(Cur, k, by, now)
            IN  /\ k \notin DOMAIN data =>
                      /\ r.st.err = ""
                      /\ r.ret = IntV(by)
                      /\ r.st.data[k].value = IntV(by)
                      /\ r.st.data[k].ttl = 0
                      /\ r.st.keys = keys
                /\ written[k].kind = "counter" =>
                      /\ k \in DOMAIN data
                      /\ data[k].value = written[k].value
                      /\ r.st.err = ""
                      /\ r.ret = IntV(written[k].value.n + by)

\* C7 witness: a counter that is back at 0 after an increment and a
\* decrement, from where an increment returns 1.
C7_Witness ==
    \E k \in Keys :
        /\ raised = ""
        /\ written[k].kind = "counter" /\ written[k].value = IntV(0)
        /\ data[k].value = IntV(0)
        /\ increment(Cur, k, 1, now).ret = IntV(1)

\* C8: increment(k) and decrement(k) on a Record that holds a string, empty
\* or not, fail with NotIncrementable and leave Store and index as they were.
C8_NotIncrementable ==
    Serving =>
        \A k \in DOMAIN data :
            data[k].value.type = "str" =>
                \A r \in {increment(Cur, k, 1, now), decrement(Cur, k, now)} :
                    /\ r.st.err = "NotIncrementableError"
                    /\ r.st.data = data
                    /\ r.st.keys = keys

\* C9: expire(k, T) at instant t0 on a key that has a Record sets its ttl to
\* T and its seed to t0: ttl(k) at t >= t0 is max(T - (t - t0), 0), get(k) is
\* None from t0 + T on, and k is subscribed under t0 + T and no longer under
\* the old instant.
C9_ExpireResets ==
    Serving =>
        \A k \in DOMAIN data, T \in Ttls :
            LET r == expire(Cur, k, T, now).st
                old == data[k].seed + data[k].ttl
            IN  /\ r.err = ""
                /\ r.data[k].ttl = T
                /\ r.data[k].seed = now
                /\ \A t \in now..(MaxTime + 1) :
                      /\ ttl(r, k, t).ret = IntV(Max(T - (t - now), 0))
                      /\ (T > 0 /\ t >= now + T) => get(r, k, t).ret = NoneV
                /\ T > 0 => now + T \in Subscribed(r.keys, k)
                /\ (data[k].ttl > 0 /\ old # now + T) => old \notin Subscribed(r.keys, k)

\* C10: expire(k, ttl) and ttl(k) on a key with no Record fail with
\* KeyNotFound and leave Store and index unchanged; no Record is created.
C10_KeyNotFound ==
    Serving =>
        \A k \in Keys \ DOMAIN data :
            /\ ttl(Cur, k, now).st.err = "KeyNotFound"
            /\ ttl(Cur, k, now).st = [Cur EXCEPT !.err = "KeyNotFound"]
            /\ \A T \in Ttls :
                  /\ expire(Cur, k, T, now).st.err = "KeyNotFound"
                  /\ expire(Cur, k, T, now).st.data = data
                  /\ expire(Cur, k, T, now).st.keys = keys

\* C11: for a key that has a Record, ttl(k) at instant t returns
\* max(ttl - (t - seed), 0) of the Record as it is: 0 when it is persistent
\* or expired and not yet reaped, never negative, and never more at t + 1
\* than at t; the call changes nothing.
C11_RemainingTtl ==
    Serving =>
        \A k \in DOMAIN data : \A t \in now..(MaxTime + 1) :
            LET r == ttl(Cur, k, t)
                left == data[k].ttl - (t - data[k].seed)
            IN  /\ r.st = Cur
                /\ r.ret = IntV(IF left > 0 THEN left ELSE 0)
                /\ r.ret.n >= 0
                /\ data[k].ttl = 0 => r.ret = IntV(0)
                /\ (data[k].ttl > 0 /\ t >= data[k].seed + data[k].ttl) => r.ret = IntV(0)
                /\ ttl(Cur, k, t + 1).ret.n <= r.ret.n
                /\ t = now =>
                      handle_message(Cur, Message("TTL", k, NoneV, 0, 1), t).response
                          = serialize_output(r.ret)

\* C11 witness: one Record is expired and not reaped (its ttl reads 0), the
\* other still has time left.
C11_Witness ==
    /\ raised = ""
    /\ DOMAIN data = Keys
    /\ \E k \in Keys :
          /\ data[k].ttl > 0 /\ now >= data[k].seed + data[k].ttl
          /\ ttl(Cur, k, now).ret = IntV(0)
    /\ \E k \in Keys : ttl(Cur, k, now).ret = IntV(1)

\* C12: a request whose command is not in the MAP is answered with status
\* ERROR: handle_message returns, no exception leaves it, Store and index
\* are unchanged, and the server goes on serving.
C12_UnknownCommand ==
    /\ raised # "CommandNotFoundError"
    /\ Serving =>
          LET r == handle_message(Cur, Message("FOO", "", NoneV, 0, 1), now)
          IN  /\ r.st = Cur
              /\ r.response = serialize_error("CommandNotFoundError.message")

\* C13: set(k, v, ttl) on a key that has a Record with a ttl leaves k in the
\* index only under now + ttl when ttl > 0 and in no bucket when ttl = 0;
\* the bucket of the old expiration instant no longer holds k unless it is
\* the new instant.
C13_SetUnsubscribes ==
    Serving =>
        \A k \in DOMAIN data : \A v \in SetValues, T \in Ttls :
            data[k].ttl > 0 =>
                LET r == set(Cur, k, v, T, now).st
                    old == data[k].seed + data[k].ttl
                IN  /\ T > 0 => Subscribed(r.keys, k) = {now + T}
                    /\ T = 0 => Subscribed(r.keys, k) = {}
                    /\ old # now + T => old \notin Subscribed(r.keys, k)

\* C14: get(k) on a key whose Record has expired returns absent and deletes
\* it: afterwards k has no Record and occurs in no bucket of the index,
\* whatever was done to k before.
C14_LazyExpiry ==
    Serving =>
        \A k \in DOMAIN data :
            expired(data[k], now) =>
                LET r == get(Cur, k, now)
                IN  /\ r.st.err = ""
                    /\ r.ret = NoneV
                    /\ k \notin DOMAIN r.st.data
                    /\ Subscribed(r.st.keys, k) = {}

\* C15: increment and decrement of a Record holding a number change only
\* its value: ttl and seed stay, and the index is left exactly as it was.
C15_CounterKeepsIndex ==
    Serving =>
        \A k \in DOMAIN data :
            data[k].value.type = "int" =>
                /\ \A by \in IncrementBy :
                      LET r == increment(Cur, k, by, now)
                      IN  /\ r.ret = IntV(data[k].value.n + by)
                          /\ r.st.data = [data EXCEPT ![k].value = r.ret]
                          /\ r.st.keys = keys
                /\ LET r == decrement(Cur, k, now)
                   IN  /\ r.ret = IntV(data[k].value.n - 1)
                       /\ r.st.data = [data EXCEPT ![k].value = r.ret]
                       /\ r.st.keys = keys

\* C16: increment of a Record holding 0 mutates that Record: the value
\* becomes the amount, its ttl, seed and subscriptions stay; it is not
\* replaced by a new persistent Record.
C16_ZeroIsAValue ==
    Serving =>
        \A k \in DOMAIN data : \A by \in IncrementBy :
            data[k].value = IntV(0) =>
                LET r == increment(Cur, k, by, now)
                IN  /\ r.ret = IntV(by)
                    /\ r.st.data[k].ttl = data[k].ttl
                    /\ r.st.data[k].seed = data[k].seed
                    /\ Subscribed(r.st.keys, k) = Subscribed(keys, k)

\* C17: a reaper tick at t deletes every key subscribed under t and clears
\* the bucket: afterwards bucket t is empty and no Record whose expiration
\* is t remains.
C17_TickDrainsBucket ==
    Serving =>
        LET r == cleanup(Cur, now)
        IN  /\ r.err = ""
            /\ Bucket(r.keys, now) = << >>
            /\ \A k \in DOMAIN r.data :
                  ~(r.data[k].ttl > 0 /\ expiration(r.data[k]) = now)

\* C18: the reaper keeps ticking while the server serves, and a Record with
\* a ttl that nobody reads or writes again is removed by it: the first tick
\* after its expiration instant, whenever that tick comes, leaves no Record
\* that expired at an earlier instant.
C18_ProactiveReclamation ==
    Serving =>
        /\ ENABLED TimerRun
        /\ \A k \in DOMAIN data : \A t \in now..(MaxTime + 2) :
              (data[k].ttl > 0 /\ expiration(data[k]) <= t) =>
                  k \notin DOMAIN cleanup(Cur, t).data

\* C19: unsubscribe of a key that is not in the bucket of the Store's
\* expiration is a no-op: it raises nothing and leaves the index as it was.
C19_UnsubscribeSilent ==
    Serving =>
        \A k \in Keys : \A T \in Ttls \ {0} :
            LET store == Store(k, NoneV, T, 0, now)
            IN  ~InSeq(Bucket(keys, expiration(store)), k) =>
                    unsubscribe(Cur, store) = Cur

\* C20: a command on key k leaves the Record of every other key, and the
\* occurrences of every other key in every bucket, as they were; ttl(k) and
\* get(k) of a key that is absent or has a Record that is not expired
\* change nothing at all.
C20_KeyIsolation ==
    Serving =>
        \A k \in Keys :
            LET Others(st) ==
                    LET f == [i \in DOMAIN st.keys |->
                                 SelectSeq(st.keys[i], LAMBDA x : x # k)]
                    IN  [data |-> [o \in DOMAIN st.data \ {k} |-> st.data[o]],
                         keys |-> [i \in {j \in DOMAIN f : f[j] # << >>} |-> f[i]]]
                before == Others(Cur)
                read == get(Cur, k, now).st
                left == ttl(Cur, k, now).st
            IN  /\ Others(read) = before
                /\ Others(delete(Cur, k, now)) = before
                /\ Others(decrement(Cur, k, now).st) = before
                /\ Others(left) = before
                /\ \A v \in SetValues, T \in Ttls :
                      Others(set(Cur, k, v, T, now).st) = before
                /\ \A by \in IncrementBy : Others(increment(Cur, k, by, now).st) = before
                /\ \A T \in Ttls : Others(expire(Cur, k, T, now).st) = before
                /\ (k \notin DOMAIN data \/ ~expired(deserialize(k, data, now), now)) =>
                      /\ read = Cur
                      /\ left = Cur

\* C20 witness: both keys have a Record and share a bucket, and deleting the
\* first leaves the second with its Record and its entry.
C20_Witness ==
    /\ raised = ""
    /\ DOMAIN data = Keys
    /\ \E i \in DOMAIN keys :
          /\ keys[i] = <<"a", "b">>
          /\ delete(Cur, "a", now) = St([o \in {"b"} |-> data[o]], (i :> <<"b">>), "")

====
